---- MODULE Spec2Model ----
(***************************************************************************)
(* Request/response orchestration core of pyfabricops                      *)
(* (src/src/pyfabricops/_core.py): api_core_request, pagination_handler    *)
(* and lro_handler, with the remote service and the transport as the       *)
(* environment.                                                            *)
(***************************************************************************)
EXTENDS Integers, Sequences, FiniteSets, TLC

VARIABLES
    pc,                 \* position of the single (blocking) thread of control
    disp,               \* the entry point call in progress: arguments, response
    args,               \* arguments of the api_core_request call
    tokenAnswer,        \* api_core_request: what the token provider answered
    transportExc,       \* transport exception the initial request met, or NoExc
    raised,             \* exception that reached the caller, or NoExc
    ret,                \* value returned by the operation that ran last
    handled,            \* what the handler gave back to its entry point
    tokenCalls,         \* calls of the token provider so far
    httpCalls,          \* HTTP requests issued so far (requests.request calls)
    api_result,         \* the envelope object handed to a handler (mutable data)
    initial,            \* value of that envelope at the moment of the call
    continuation_token, \* pagination_handler: local continuation_token
    data,               \* pagination_handler: local accumulator list
    aliased,            \* data is the very list object of api_result.data['value']
    pag,                \* pagination bookkeeping (requests, tokens, served items)
    lro,                \* lro_handler locals and bookkeeping
    pathCall            \* an entry point's path building: arguments and path

vars == <<pc, disp, args, tokenAnswer,
          transportExc, raised, ret, handled, tokenCalls, httpCalls, api_result, initial,
          continuation_token, data, aliased, pag, lro, pathCall>>

---------------------------------------------------------------------------
(* Bounds of the model.                                                    *)

\* Longest 'value' array one page carries.
MaxPageLen == 2

\* Continuation requests pagination_handler may issue before the model stops
\* following it (the code itself has no cap).
MaxPageRequests == 3

---------------------------------------------------------------------------
(* Values.                                                                 *)

\* Python None in a string-valued position.
None == "<None>"

\* A JSON object key that is not there.
Absent == "<absent>"

\* JSON null as the value of a key.
Null == "<null>"

NoExc == "none"

\* status values of an operation-status body; "Cancelled" stands for any
\* value outside the five the handler names, Absent for a body without the key.
StatusVals == {"NotStarted", "Running", "Succeeded", "Failed", "Undefined",
               "Cancelled", Absent}

\* HTTP status codes of a completed response (300 Multiple Choices is a 3xx
\* that requests hands back instead of following).
StatusCodes == {200, 202, 300, 404, 500}

\* Spellings under which the service can send the Location header.
HeaderSpellings == {"Location", "location"}

\* items lo+1..lo+n in order: the next n items the service serves.
Items(lo, n) == [i \in 1..n |-> lo + i]

\* Decoded JSON. kind: "none" (Python None), "dict", "list" (a non-empty array),
\* "scalar" (a non-zero number). A dict carries the keys the core reads:
\* value (hasValue/value), continuationToken (token), status; src names the
\* resource whose body it is.
NoData == [kind |-> "none", hasValue |-> FALSE, value |-> <<>>,
           token |-> Absent, status |-> Absent, src |-> "none"]

Dict(hasValue, value, token, status, src) ==
    [kind |-> "dict", hasValue |-> hasValue, value |-> value,
     token |-> token, status |-> status, src |-> src]

NonDict(kind, src) ==
    [kind |-> kind, hasValue |-> FALSE, value |-> <<>>,
     token |-> Absent, status |-> Absent, src |-> src]

\* Python truthiness of decoded JSON: None and {} are falsy.
Truthy(d) ==
    CASE d.kind = "none" -> FALSE
      [] d.kind = "dict" -> d.hasValue \/ d.token # Absent \/ d.status # Absent
      [] OTHER -> TRUE

\* d.get('value', []) on a dict d.
ValueOf(d) == IF d.hasValue THEN d.value ELSE <<>>

\* Python truthiness of a continuation token value.
TokenTruthy(t) == t \notin {Absent, Null, ""}

\* Headers of an envelope: None, a plain dict (case-sensitive keys, as
\* dict(response.headers) gives) or requests' case-insensitive mapping.
NoHeaders == [kind |-> "none", keys |-> {}]

PlainHeaders(keys) == [kind |-> "dict", keys |-> keys]

CIHeaders(keys) == [kind |-> "cidict", keys |-> keys]

NoKwargs == [present |-> FALSE, method |-> None, query |-> FALSE, auth |-> 0]

\* Python None as a returned value, and the other shapes of ret.
NoEnvelope == [success |-> FALSE, status_code |-> 0, data |-> NoData,
               headers |-> NoHeaders, error |-> None, request_kwargs |-> NoKwargs]

ApiResult(success, status_code, d, headers, error, request_kwargs) ==
    [success |-> success, status_code |-> status_code, data |-> d,
     headers |-> headers, error |-> error, request_kwargs |-> request_kwargs]

RetNothing == [kind |-> "nothing", env |-> NoEnvelope]

RetNone == [kind |-> "None", env |-> NoEnvelope]

RetEnvelope(e) == [kind |-> "envelope", env |-> e]

RetRaw == [kind |-> "raw", env |-> NoEnvelope]

\* Decoded JSON handed back by a dispatcher entry point (None when there is
\* none), and the list read from its 'value' key.
RetData(d) ==
    IF d.kind = "none" THEN RetNone
    ELSE [kind |-> "data", env |-> [NoEnvelope EXCEPT !.data = d]]

RetList(value) ==
    [kind |-> "list",
     env |-> [NoEnvelope EXCEPT !.data = [NoData EXCEPT !.kind = "list",
                                                        !.value = value]]]

---------------------------------------------------------------------------
(* The environment: what the transport and the service can answer.         *)

\* requests' transport exceptions, by class. ConnectTimeout derives from both
\* ConnectionError and Timeout; TooManyRedirects stands for every other
\* RequestException.
TransportExceptions == {"ReadTimeout", "ConnectTimeout", "ConnectionError",
                        "TooManyRedirects"}

IsTimeout(exc) == exc \in {"ReadTimeout", "ConnectTimeout"}

IsConnectionError(exc) == exc \in {"ConnectionError", "ConnectTimeout"}

\* A response body: no content, content that is not JSON, or JSON.
Body(content, json) == [content |-> content, json |-> json]

EmptyBody == Body("empty", NoData)

GarbageBody == Body("garbage", NoData)

\* response.text of a body; the text of an object with a status key shows
\* the status.
Text(body) ==
    CASE body.content = "empty" -> ""
      [] body.content = "garbage" -> "<html>"
      [] body.json.status # Absent -> "{status: " \o body.json.status \o "}"
      [] OTHER -> "{json}"

\* The outcome of one requests.request call: a transport exception, or a
\* completed response (status, body, spelling of its Location header if any).
Raises(exc) == [exc |-> exc, status |-> 0, body |-> EmptyBody, hdr |-> Absent]

Response(status, body, hdr) ==
    [exc |-> NoExc, status |-> status, body |-> body, hdr |-> hdr]

\* JSON bodies a collection or item resource can answer the initial request
\* with: pages of the next n items (with or without the value key, with any
\* continuationToken value), an empty object, null, an array, a number.
PageBodies(lo, tokens, src) ==
    { Body("json", Dict(TRUE, Items(lo, n), t, Absent, src)) :
          n \in 0..MaxPageLen, t \in tokens }
    \cup { Body("json", Dict(FALSE, <<>>, t, Absent, src)) : t \in tokens }

OtherBodies(src) ==
    { EmptyBody, GarbageBody, Body("json", NoData),
      Body("json", NonDict("list", src)), Body("json", NonDict("scalar", src)) }

\* The service hands out its tokens in the order A, B, C, ...: the k-th token
\* it issues is TokenNames[k] (tokens are opaque to the client).
TokenNames == <<"A", "B", "C", "D", "E", "F">>

InitialOutcomes ==
    { Raises(e) : e \in TransportExceptions }
    \cup { Response(s, b, h) :
             s \in StatusCodes,
             b \in PageBodies(0, {Absent, Null, "", TokenNames[1]}, "initial")
                   \cup OtherBodies("initial"),
             h \in HeaderSpellings \cup {Absent} }

---------------------------------------------------------------------------
(* api_core_request                                                        *)

\* Arguments: payload is None, a dict or something else; data is None or
\* given; params is falsy, a non-empty dict or a truthy non-dict.
ArgSpace ==
    [payload : {"none", "dict", "nondict"}, data : {"none", "given"},
     params : {"none", "dict", "nondict"}, method : {"get", "post"},
     return_raw : BOOLEAN]

\* No call of api_core_request is being looked at.
NoArgs == [payload |-> "none", data |-> "none", params |-> "none",
           method |-> "get", return_raw |-> FALSE]

\* The token provider's answer: a token, or nothing.
TokenOutcomes == {"token", "none"}

\* The token provider has not been asked.
NotConsulted == "<not consulted>"

\* `if not token`.
TokenMissing_Never(tok) == FALSE

TokenMissing(tok) == tok = "none"

\* `if return_raw: return response`.
ReturnRaw_Never(return_raw) == FALSE

ReturnRaw(return_raw) == return_raw

\* `if params:` with a non-dict: InvalidParameterError.
ParamsInvalid(params) == params = "nondict"

\* `payload is not None and data is not None`.
PayloadDataConflict_Missing(payload, d) == FALSE

PayloadDataConflict(payload, d) == payload # "none" /\ d # "none"

\* `not isinstance(payload, dict)` after `payload = {}` for None.
PayloadInvalid(payload) == payload = "nondict"

\* response.ok of requests: raise_for_status() does not raise, which it does
\* for 400 <= status < 600.
ResponseOk(status) == ~(400 =< status /\ status < 600)

RequestKwargs(a, auth) ==
    [present |-> TRUE, method |-> a.method, query |-> (a.params = "dict"),
     auth |-> auth]

\* The three except clauses, in the order they are tried.
TransportError_BaseClassFirst(exc, kw) ==
    ApiResult(FALSE, 500, NoData, NoHeaders, "Request failed: e", kw)

TransportError(exc, kw) ==
    CASE IsTimeout(exc) ->
            ApiResult(FALSE, 408, NoData, NoHeaders,
                      "Request timeout after 30 seconds", kw)
      [] IsConnectionError(exc) ->
            ApiResult(FALSE, 503, NoData, NoHeaders, "Connection error: e", kw)
      [] OTHER ->
            ApiResult(FALSE, 500, NoData, NoHeaders, "Request failed: e", kw)

\* `response.json() if response.ok and response.content else None`, None on
\* a decode failure.
JsonData_IgnoresOk(out) ==
    IF out.body.content = "json" THEN out.body.json ELSE NoData

JsonData(out) ==
    IF ResponseOk(out.status) /\ out.body.content = "json"
    THEN out.body.json
    ELSE NoData

\* dict(response.headers): a plain dict with the service's spelling.
DictOfHeaders(hdr) == PlainHeaders(IF hdr = Absent THEN {} ELSE {hdr})

ResponseEnvelope(out, kw) ==
    ApiResult(ResponseOk(out.status), out.status, JsonData(out),
              IF ResponseOk(out.status) THEN DictOfHeaders(out.hdr) ELSE NoHeaders,
              IF ResponseOk(out.status) THEN None ELSE Text(out.body),
              kw)

Outcome(exc, r, nTok, nHttp) ==
    [raised |-> exc, ret |-> r, tokenCalls |-> nTok, httpCalls |-> nHttp]

\* The whole function: validation, token retrieval, the request, and the
\* classification of what came back. nTok and nHttp are the counters of
\* the calls made so far.
api_core_request(a, tok, out, nTok, nHttp) ==
    IF ParamsInvalid(a.params)
    THEN Outcome("InvalidParameterError", RetNothing, nTok, nHttp)
    ELSE IF PayloadDataConflict(a.payload, a.data)
    THEN Outcome("InvalidParameterError", RetNothing, nTok, nHttp)
    ELSE IF TokenMissing(tok)
    THEN Outcome("AuthenticationError", RetNothing, nTok + 1, nHttp)
    ELSE IF PayloadInvalid(a.payload)
    THEN Outcome("InvalidParameterError", RetNothing, nTok + 1, nHttp)
    ELSE LET kw == RequestKwargs(a, nTok + 1) IN
         IF out.exc # NoExc
         THEN Outcome(NoExc, RetEnvelope(TransportError(out.exc, kw)),
                      nTok + 1, nHttp + 1)
         ELSE IF ReturnRaw(a.return_raw)
         THEN Outcome(NoExc, RetRaw, nTok + 1, nHttp + 1)
         ELSE Outcome(NoExc, RetEnvelope(ResponseEnvelope(out, kw)),
                      nTok + 1, nHttp + 1)

\* A request a handler issues itself: method, URL (base and query string)
\* and headers, of which the model keeps the token call they carry.
NoRequest == [method |-> None, base |-> None, query |-> "", auth |-> 0]

NoPag == [requests |-> 0, served |-> 0, issued |-> 0, sent |-> <<>>,
          clean |-> TRUE, failedAt |-> 0, servedAtFail |-> 0,
          broke |-> FALSE, request |-> NoRequest]

NoLro == [request |-> NoRequest, via |-> "none", status |-> Absent, code |-> 0, attempt |-> 0,
          polls |-> 0, fetches |-> 0, sleeps |-> 0, streak |-> 0,
          first |-> Absent, succeededAt |-> 0, result |-> Raises(NoExc),
          exc |-> NoExc]

\* Items and tokens the service handed out in the initial response.
ServedBy(out) ==
    IF out.exc = NoExc /\ out.body.content = "json" THEN Len(out.body.json.value)
    ELSE 0

IssuedBy(out) ==
    IF out.exc = NoExc /\ out.body.content = "json"
       /\ TokenTruthy(out.body.json.token) THEN 1
    ELSE 0

ApiCoreRequest ==
    /\ pc = "idle"
    /\ \E a \in ArgSpace, tok \in TokenOutcomes, out \in InitialOutcomes :
          LET r == api_core_request(a, tok, out, tokenCalls, httpCalls) IN
          /\ args' = a
          /\ tokenAnswer' = IF r.tokenCalls > tokenCalls THEN tok ELSE NotConsulted
          /\ transportExc' = IF r.httpCalls > httpCalls THEN out.exc ELSE NoExc
          /\ raised' = r.raised
          /\ ret' = r.ret
          /\ tokenCalls' = r.tokenCalls
          /\ httpCalls' = r.httpCalls
          /\ pag' = IF r.httpCalls > httpCalls
                    THEN [NoPag EXCEPT !.served = ServedBy(out),
                                       !.issued = IssuedBy(out)]
                    ELSE NoPag
    /\ pc' = "returned"
    /\ UNCHANGED <<pathCall, disp, handled, api_result, initial, continuation_token, data, aliased,
                   lro>>

---------------------------------------------------------------------------
(* _generic_endpoints: what an entry point does with the result of the     *)
(* handler it called, and how a call ends.                                 *)

\* No dispatcher call is in progress: the core functions are called directly.
NoDisp == [op |-> "none", endpoint |-> None, workspace_id |-> None,
           status |-> 0, response |-> NoEnvelope]

\* No handler has returned to an entry point.
NoHandled == [raised |-> NoExc, ret |-> RetNothing]

\* A call ends at position p: with the exception exc, or returning r.
End(p, exc, r) ==
    /\ pc' = p
    /\ raised' = exc
    /\ ret' = IF exc = NoExc THEN r ELSE RetNothing

Return(p, exc, r) == End(p, exc, r) /\ UNCHANGED handled

\* The handler gave (exc, r) back to the entry point.
Handled(exc, r) ==
    handled' = [raised |-> exc, ret |-> IF exc = NoExc THEN r ELSE RetNothing]

\* `return paginated_response.data.get('value', [])` of _list_generic:
\* only a dict has .get.
ListReturn(exc, r) ==
    /\ Handled(exc, r)
    /\ IF exc # NoExc THEN End("disp_done", exc, RetNothing)
       ELSE IF r.env.data.kind # "dict"
       THEN End("disp_done", "AttributeError", RetNothing)
       ELSE End("disp_done", NoExc, RetList(ValueOf(r.env.data)))

\* pagination_handler ends: in its caller (op "none") or in _list_generic.
PagReturn(op, exc, r) ==
    IF op = "list" THEN ListReturn(exc, r) ELSE Return("pag_done", exc, r)

\* What _post_generic and _patch_generic do with lro_response; only
\* _post_generic turns falsy data into None.
LroResponseReturn(op, exc, r) ==
    /\ Handled(exc, r)
    /\ IF exc # NoExc THEN End("disp_done", exc, RetNothing)
       ELSE IF r.kind = "None"
       THEN \* None.success: AttributeError
            End("disp_done", "AttributeError", RetNothing)
       ELSE IF ~r.env.success THEN End("disp_done", NoExc, RetNone)
       ELSE IF op = "post" /\ ~Truthy(r.env.data)
       THEN End("disp_done", NoExc, RetNone)
       ELSE End("disp_done", NoExc, RetData(r.env.data))

\* lro_handler ends: in its caller, or in _post_generic / _patch_generic.
LroReturn(op, exc, r) ==
    IF op \in {"post", "patch"} THEN LroResponseReturn(op, exc, r)
    ELSE Return("lro_done", exc, r)

---------------------------------------------------------------------------
(* pagination_handler                                                      *)

\* What a continuation request can come back with, when the service has
\* served `served` items and issued `issued` tokens so far.
ContinuationOutcomes(served, issued) ==
    { Raises(e) : e \in TransportExceptions }
    \cup { Response(s, b, Absent) :
             s \in StatusCodes,
             b \in PageBodies(served, {Absent, Null, "", TokenNames[issued + 1]},
                              "continuation")
                   \cup OtherBodies("continuation") }

\* `'continuationToken' in api_result.data` for a truthy data that supports
\* `in` (a dict or a list).
HasContinuationField_AnyDict(d) == d.kind = "dict"

HasContinuationField(d) == d.kind = "dict" /\ d.token # Absent

\* The token put into new_url: the local continuation_token.
UrlToken(tok, first) == tok

\* requests.request(method='GET', url=new_url, headers=headers): new_url is
\* original_kwargs['url'] up to its first '?', then the token as the only
\* query parameter; headers are those of original_kwargs.
ContinuationRequest_KeepsQuery(kw, tok) ==
    [method |-> "GET", base |-> "url",
     query |-> (IF kw.query THEN "params&" ELSE "")
               \o "continuationToken=" \o tok,
     auth |-> kw.auth]

ContinuationRequest(kw, tok) ==
    [method |-> "GET", base |-> "url", query |-> "continuationToken=" \o tok,
     auth |-> kw.auth]

\* Whether the try block of one loop iteration raises: the request itself,
\* raise_for_status() (400 <= status < 600), response.json() on a body that
\* is not JSON, or .get on JSON that is no object.
PageRaises(out) ==
    \/ out.exc # NoExc
    \/ 400 =< out.status /\ out.status < 600
    \/ out.body.content # "json"
    \/ out.body.json.kind # "dict"

\* What ends the while loop after an iteration: the `break` of the except
\* clause, or a falsy continuation_token at the loop test; nothing counts
\* the iterations.
LoopEnds_Always(broke, tok) == TRUE

LoopEnds(broke, tok) == broke \/ ~TokenTruthy(tok)

\* data.extend(new_data).
Extend_Prepend(acc, new_data) == new_data \o acc

Extend(acc, new_data) == acc \o new_data

\* The envelope built after the loop.
PaginationResult_InitialStatus(res, acc) ==
    ApiResult(res.success, res.status_code,
              Dict(TRUE, acc, Absent, Absent, "accumulated"),
              res.headers, None, res.request_kwargs)

PaginationResult(res, acc) ==
    ApiResult(TRUE, 200, Dict(TRUE, acc, Absent, Absent, "accumulated"),
              res.headers, None, res.request_kwargs)

\* Entry of pagination_handler up to the first loop test, for the envelope
\* res handed in by the entry point op.
PaginationEnter(res, op) ==
    LET d == res.data IN
    /\ initial' = res
    /\ api_result' = res
    /\ IF ~Truthy(d)
       THEN /\ PagReturn(op, NoExc, RetEnvelope(res))
            /\ UNCHANGED <<continuation_token, data, aliased>>
       ELSE IF d.kind = "scalar"
       THEN \* `in` on a number: TypeError
            /\ PagReturn(op, "TypeError", RetNothing)
            /\ UNCHANGED <<continuation_token, data, aliased>>
       ELSE IF ~HasContinuationField(d)
       THEN /\ PagReturn(op, NoExc, RetEnvelope(res))
            /\ UNCHANGED <<continuation_token, data, aliased>>
       ELSE /\ continuation_token' = d.token
            /\ data' = ValueOf(d)
            /\ aliased' = d.hasValue
            /\ IF TokenTruthy(d.token)
               THEN Return("pag_loop", NoExc, RetNothing)
               ELSE PagReturn(op, NoExc,
                              RetEnvelope(PaginationResult(res, ValueOf(d))))

\* pagination_handler on the envelope api_core_request returned.
PaginationCall ==
    /\ pc = "returned"
    /\ ret.kind = "envelope"
    /\ PaginationEnter(ret.env, "none")
    /\ args' = NoArgs
    /\ tokenAnswer' = NotConsulted
    /\ transportExc' = NoExc
    /\ UNCHANGED <<pathCall, disp, tokenCalls, httpCalls, pag, lro>>

\* One iteration of the while loop, and the return when it ends the loop.
PaginationFetch ==
    /\ pc = "pag_loop"
    /\ pag.requests < MaxPageRequests
    /\ \E out \in ContinuationOutcomes(pag.served, pag.issued) :
          LET isJson == out.exc = NoExc /\ out.body.content = "json"
              broke == PageRaises(out)
              acc == IF broke THEN data
                     ELSE Extend(data, ValueOf(out.body.json))
              tok == IF broke THEN continuation_token ELSE out.body.json.token
              res == IF aliased
                     THEN [api_result EXCEPT !.data.value = acc]
                     ELSE api_result
              failed == out.exc # NoExc
                        \/ ~(200 =< out.status /\ out.status < 300)
          IN
          /\ httpCalls' = httpCalls + 1
          /\ pag' = [pag EXCEPT
                !.requests = @ + 1,
                !.sent = Append(@, UrlToken(continuation_token,
                                            initial.data.token)),
                !.served = IF isJson THEN @ + Len(out.body.json.value) ELSE @,
                !.issued = IF isJson /\ TokenTruthy(out.body.json.token)
                           THEN @ + 1 ELSE @,
                !.clean = @ /\ ~failed /\ ~broke,
                !.broke = broke,
                !.request = ContinuationRequest(
                                api_result.request_kwargs,
                                UrlToken(continuation_token,
                                         initial.data.token)),
                !.failedAt = IF failed /\ @ = 0 THEN pag.requests + 2 ELSE @,
                !.servedAtFail = IF failed /\ pag.failedAt = 0
                                 THEN pag.served ELSE @]
          /\ data' = acc
          /\ continuation_token' = tok
          /\ api_result' = res
          /\ IF LoopEnds(broke, tok)
             THEN PagReturn(disp.op, NoExc,
                            RetEnvelope(PaginationResult(res, acc)))
             ELSE pc' = "pag_loop" /\ UNCHANGED <<raised, ret, handled>>
    /\ UNCHANGED <<pathCall, disp, args, tokenAnswer, transportExc, tokenCalls, initial, aliased,
                   lro>>

---------------------------------------------------------------------------
(* lro_handler                                                             *)

MAX_RETRIES_Eleven == 10 + 1

MAX_RETRIES == 10

\* Bodies of the operation-status resource: an object with any status value
\* (or without the key), or something that is no object.
PollOutcomes ==
    { Raises(e) : e \in TransportExceptions }
    \cup { Response(s, b, Absent) :
             s \in StatusCodes,
             b \in { Body("json", Dict(FALSE, <<>>, Absent, st, "status")) :
                         st \in StatusVals }
                   \cup OtherBodies("status") }

\* Bodies of {Location}/result: a payload object, an empty object, or
\* something else.
ResultOutcomes ==
    { Raises(e) : e \in TransportExceptions }
    \cup { Response(s, b, Absent) :
             s \in StatusCodes,
             b \in { Body("json", Dict(TRUE, <<1>>, Absent, Absent, "result")),
                     Body("json", Dict(FALSE, <<>>, Absent, Absent, "result")) }
                   \cup OtherBodies("result") }

\* `'location' in api_result.headers` (a plain dict compares keys exactly,
\* requests' mapping ignores case).
HasLowerLocation(headers) ==
    IF headers.kind = "cidict" THEN headers.keys # {}
    ELSE "location" \in headers.keys

\* api_result.headers['Location'] finds the key.
HasLocationKey(headers) ==
    IF headers.kind = "cidict" THEN headers.keys # {}
    ELSE "Location" \in headers.keys

\* state.json().get('status') raises: the request failed, the body is not
\* JSON, or the JSON is no object.
PollRaises(out) ==
    \/ out.exc # NoExc
    \/ out.body.content # "json"
    \/ out.body.json.kind # "dict"

\* The exception it raises: the transport's, the JSON decoder's, or that of
\* .get on what is no dict.
PollException(out) ==
    CASE out.exc # NoExc -> out.exc
      [] out.body.content # "json" -> "JSONDecodeError"
      [] out.body.json.kind # "dict" -> "AttributeError"
      [] OTHER -> NoExc

\* requests.request(method='GET', url=location, headers=headers) and the
\* same for f'{location}/result', headers being those of request_kwargs.
PollRequest(kw) ==
    [method |-> "GET", base |-> "Location", query |-> "", auth |-> kw.auth]

ResultRequest(kw) ==
    [method |-> "GET", base |-> "Location/result", query |-> "",
     auth |-> kw.auth]

\* The branch taken on the first poll's status.
FirstBranch(status) ==
    CASE status \in {"Succeeded", "Failed", "Undefined"} -> "result"
      [] status \in {"Running", "NotStarted"} -> "loop"
      [] OTHER -> "none"

\* str(attempt).
AttemptText == <<"1", "2", "3", "4", "5", "6", "7", "8", "9", "10", "11">>

\* The text of the except clause around the result fetch: of the first-poll
\* branch (attempt 0) or of the retry loop.
FetchErrorText_AlwaysFirst(attempt) ==
    IF attempt = 0 THEN "Failed to get LRO result: e"
    ELSE "LRO polling failed at attempt 1: e"

FetchErrorText(attempt) ==
    IF attempt = 0 THEN "Failed to get LRO result: e"
    ELSE "LRO polling failed at attempt " \o AttemptText[attempt] \o ": e"

Failure500(error) == ApiResult(FALSE, 500, NoData, NoHeaders, error, NoKwargs)

\* The envelope of GET {Location}/result; response.json() is called only
\* on an ok response, and its failure lands in the except clause.
LroResultEnvelope_DropsPayload(out, attempt) ==
    IF out.exc # NoExc \/ (ResponseOk(out.status) /\ out.body.content # "json")
    THEN Failure500(FetchErrorText(attempt))
    ELSE ApiResult(ResponseOk(out.status), out.status, NoData,
                   IF ResponseOk(out.status) THEN CIHeaders({}) ELSE NoHeaders,
                   IF ResponseOk(out.status) THEN None ELSE Text(out.body),
                   NoKwargs)

LroResultEnvelope(out, attempt) ==
    IF out.exc # NoExc \/ (ResponseOk(out.status) /\ out.body.content # "json")
    THEN Failure500(FetchErrorText(attempt))
    ELSE ApiResult(ResponseOk(out.status), out.status,
                   IF ResponseOk(out.status) THEN out.body.json ELSE NoData,
                   IF ResponseOk(out.status) THEN CIHeaders({}) ELSE NoHeaders,
                   IF ResponseOk(out.status) THEN None ELSE Text(out.body),
                   NoKwargs)

\* The envelope returned when a retry-loop poll reports Failed or Undefined.
LroFailedEnvelope_OkIsSuccess(out, status) ==
    ApiResult(ResponseOk(out.status), out.status,
              IF ResponseOk(out.status) THEN out.body.json ELSE NoData,
              IF ResponseOk(out.status) THEN CIHeaders({}) ELSE NoHeaders,
              IF ResponseOk(out.status) THEN "LRO failed with status: " \o status
              ELSE Text(out.body),
              NoKwargs)

LroFailedEnvelope(out, status) ==
    ApiResult(FALSE, out.status,
              IF ResponseOk(out.status) THEN out.body.json ELSE NoData,
              IF ResponseOk(out.status) THEN CIHeaders({}) ELSE NoHeaders,
              IF ResponseOk(out.status) THEN "LRO failed with status: " \o status
              ELSE Text(out.body),
              NoKwargs)

\* The envelope returned after the loop ran out.
MaxRetriesEnvelope_AsPollFailure(code) ==
    ApiResult(FALSE, code, NoData, NoHeaders,
              "LRO polling failed at attempt 10: e", NoKwargs)

MaxRetriesEnvelope(code) ==
    ApiResult(FALSE, code, NoData, NoHeaders, "Max retries exceeded.", NoKwargs)

\* Lines 264-271: the trigger test, the Location lookup and the headers
\* lookup, for the envelope res handed in by `via`: api_core_request's
\* caller, another caller, or the entry point "post" or "patch".
LroEnter(res, via) ==
    /\ initial' = res
    /\ api_result' = res
    /\ lro' = [NoLro EXCEPT !.via = via]
    /\ IF res.headers.kind = "none"
       THEN \* `in` on None: TypeError
            LroReturn(via, "TypeError", RetNothing)
       ELSE IF ~HasLowerLocation(res.headers)
       THEN LroReturn(via, NoExc, RetEnvelope(res))
       ELSE IF ~HasLocationKey(res.headers)
       THEN LroReturn(via, "KeyError", RetNothing)
       ELSE IF ~res.request_kwargs.present
       THEN \* None.get: AttributeError
            LroReturn(via, "AttributeError", RetNothing)
       ELSE Return("lro_first", NoExc, RetNothing)

\* lro_handler on the envelope api_core_request returned.
LroCall ==
    /\ pc = "returned"
    /\ ret.kind = "envelope"
    /\ LroEnter(ret.env, "api_core_request")
    /\ args' = NoArgs
    /\ tokenAnswer' = NotConsulted
    /\ transportExc' = NoExc
    /\ UNCHANGED <<pathCall, disp, tokenCalls, httpCalls, continuation_token, data,
                   aliased, pag>>

\* Envelopes a caller can build itself and hand to lro_handler: a 202
\* success with any header mapping, with or without request_kwargs.
CallerEnvelopes ==
    { ApiResult(TRUE, 202, NoData, h, None, kw) :
        h \in { PlainHeaders(k) : k \in SUBSET HeaderSpellings }
              \cup { CIHeaders({"Location"}), NoHeaders },
        kw \in { NoKwargs,
                 [present |-> TRUE, method |-> "post", query |-> FALSE,
                  auth |-> 1] } }

LroCallDirect ==
    /\ pc = "idle"
    /\ \E res \in CallerEnvelopes : LroEnter(res, "caller")
    /\ UNCHANGED <<pathCall, disp, args, tokenAnswer, transportExc, tokenCalls, httpCalls,
                   continuation_token, data, aliased, pag>>

\* Lines 273-313: the first poll and the branch on its status.
LroFirstPoll ==
    /\ pc = "lro_first"
    /\ \E out \in PollOutcomes :
          LET status == IF PollRaises(out) THEN Absent ELSE out.body.json.status
              branch == FirstBranch(status) IN
          /\ httpCalls' = httpCalls + 1
          /\ lro' = [lro EXCEPT
                !.request = PollRequest(api_result.request_kwargs),
                !.polls = @ + 1, !.status = status, !.first = status,
                !.code = out.status, !.exc = PollException(out),
                !.streak = IF status = "Running" THEN 1 ELSE 0,
                !.succeededAt = IF status = "Succeeded" THEN 1 ELSE 0,
                !.attempt = IF ~PollRaises(out) /\ branch = "loop" THEN 1 ELSE 0]
          /\ IF PollRaises(out)
             THEN LroReturn(disp.op, NoExc,
                     RetEnvelope(Failure500("Failed to check LRO status: e")))
             ELSE CASE branch = "result" ->
                         pc' = "lro_result" /\ UNCHANGED <<raised, ret, handled>>
                    [] branch = "loop" ->
                         pc' = "lro_loop" /\ UNCHANGED <<raised, ret, handled>>
                    [] OTHER -> \* no branch taken: the function ends
                         LroReturn(disp.op, NoExc, RetNone)
    /\ UNCHANGED <<pathCall, disp, args, tokenAnswer, transportExc, tokenCalls, api_result,
                   initial, continuation_token, data, aliased, pag>>

\* GET {Location}/result, of the first-poll branch (lines 289-311) or of the
\* retry loop (lines 336-348 and 352-360).
LroResult ==
    /\ pc = "lro_result"
    /\ \E out \in ResultOutcomes :
          /\ httpCalls' = httpCalls + 1
          /\ lro' = [lro EXCEPT
                !.request = ResultRequest(api_result.request_kwargs),
                !.fetches = @ + 1, !.result = out]
          /\ LroReturn(disp.op, NoExc,
                       RetEnvelope(LroResultEnvelope(out, lro.attempt)))
    /\ UNCHANGED <<pathCall, disp, args, tokenAnswer, transportExc, tokenCalls, api_result,
                   initial, continuation_token, data, aliased, pag>>

\* One iteration of the retry loop (lines 316-360), and the return after the
\* loop (lines 362-369) when it was the last one.
LroLoopPoll ==
    /\ pc = "lro_loop"
    /\ lro.attempt =< MAX_RETRIES
    /\ \E out \in PollOutcomes :
          LET status == IF PollRaises(out) THEN Absent ELSE out.body.json.status
              polled == [lro EXCEPT
                !.request = PollRequest(api_result.request_kwargs),
                !.polls = @ + 1, !.status = status, !.code = out.status,
                !.exc = PollException(out),
                !.streak = IF status = "Running" /\ @ = lro.polls
                           THEN @ + 1 ELSE @,
                !.succeededAt = IF status = "Succeeded" /\ @ = 0
                                THEN lro.polls + 1 ELSE @]
          IN
          /\ httpCalls' = httpCalls + 1
          /\ IF PollRaises(out)
             THEN /\ lro' = polled
                  /\ LroReturn(disp.op, NoExc,
                        RetEnvelope(Failure500(FetchErrorText(lro.attempt))))
             ELSE IF status \in {"Failed", "Undefined"}
             THEN /\ lro' = polled
                  /\ LroReturn(disp.op, NoExc,
                        RetEnvelope(LroFailedEnvelope(out, status)))
             ELSE IF status = "Succeeded"
             THEN /\ pc' = "lro_result"
                  /\ lro' = polled
                  /\ UNCHANGED <<raised, ret, handled>>
             ELSE \* time.sleep(RETRY_INTERVAL), then the next attempt
                  /\ lro' = [polled EXCEPT !.sleeps = @ + 1,
                                           !.attempt = IF @ < MAX_RETRIES
                                                       THEN @ + 1 ELSE @]
                  /\ IF lro.attempt < MAX_RETRIES
                     THEN pc' = "lro_loop" /\ UNCHANGED <<raised, ret, handled>>
                     ELSE LroReturn(disp.op, NoExc,
                             RetEnvelope(MaxRetriesEnvelope(out.status)))
    /\ UNCHANGED <<pathCall, disp, args, tokenAnswer, transportExc, tokenCalls, api_result,
                   initial, continuation_token, data, aliased, pag>>

---------------------------------------------------------------------------
(* _generic_endpoints: the five entry points                               *)

\* The request shape of a template, as far as the entry points branch on it.
TemplateSpace ==
    [requires_workspace_id : BOOLEAN, return_raw : BOOLEAN,
     support_pagination : BOOLEAN]

TemplateName(t) ==
    (IF t.requires_workspace_id THEN "workspace" ELSE "tenant")
    \o (IF t.return_raw THEN "/raw" ELSE "/parsed")
    \o (IF t.support_pagination THEN "/paged" ELSE "/single")

\* The registry: one template of every shape, under its name. The templates
\* carry no default payload, data or query.
ENDPOINT_TEMPLATES ==
    [name \in {TemplateName(t) : t \in TemplateSpace} |->
        CHOOSE t \in TemplateSpace : TemplateName(t) = name]

\* _list_generic, _get_generic, _post_generic, _patch_generic, _delete_generic.
EntryPoints == {"list", "get", "post", "patch", "delete"}

\* `endpoint not in ENDPOINT_TEMPLATES`.
UnknownTemplate(endpoint) == endpoint \notin DOMAIN ENDPOINT_TEMPLATES

\* `template['requires_workspace_id'] and workspace_id is None`.
WorkspaceMissing_Unchecked(template, workspace_id) == FALSE

WorkspaceMissing(template, workspace_id) ==
    template.requires_workspace_id /\ workspace_id = None

\* The workspace_id argument an entry point is called with. A template that
\* does not require one never reads it (lines 23-25), so it is then left out.
WorkspaceIdsOf(endpoint) ==
    IF UnknownTemplate(endpoint)
       \/ ENDPOINT_TEMPLATES[endpoint].requires_workspace_id
    THEN {None, "ws"}
    ELSE {None}

\* The payload argument an entry point can be called with; only
\* _post_generic and _patch_generic take one.
PayloadsOf(op) ==
    IF op \in {"post", "patch"} THEN {"none", "dict", "nondict"} ELSE {"none"}

\* The arguments the entry point passes to api_core_request:
\* `payload or template['payload']`, the template's data and params, and the
\* method (the template's for list and get).
TemplateArgs(op, template, payload) ==
    [payload |-> payload, data |-> "none", params |-> "none",
     method |-> IF op \in {"list", "get"} THEN "get" ELSE op,
     return_raw |-> template.return_raw]

\* What the entry point does with what api_core_request did (r).
DispatchResponse(op, template, r) ==
    IF r.raised # NoExc
    THEN /\ Return("disp_done", r.raised, RetNothing)
         /\ UNCHANGED <<api_result, initial, continuation_token, data, aliased,
                        lro>>
    ELSE IF template.return_raw
    THEN /\ Return("disp_done", NoExc, r.ret)
         /\ UNCHANGED <<api_result, initial, continuation_token, data, aliased,
                        lro>>
    ELSE IF ~r.ret.env.success
    THEN /\ Return("disp_done", NoExc, RetNone)
         /\ UNCHANGED <<api_result, initial, continuation_token, data, aliased,
                        lro>>
    ELSE IF op = "list" /\ template.support_pagination
    THEN /\ PaginationEnter(r.ret.env, op)
         /\ UNCHANGED lro
    ELSE IF op \in {"post", "patch"} /\ r.ret.env.status_code = 202
    THEN /\ LroEnter(r.ret.env, op)
         /\ UNCHANGED <<continuation_token, data, aliased>>
    ELSE /\ Return("disp_done", NoExc,
                   IF op \in {"list", "delete"} THEN RetNone
                   ELSE RetData(r.ret.env.data))
         /\ UNCHANGED <<api_result, initial, continuation_token, data, aliased,
                        lro>>

\* One call of an entry point, up to its return or to the first request of
\* the handler it calls.
Dispatch ==
    /\ pc = "idle"
    /\ \E op \in EntryPoints,
          endpoint \in DOMAIN ENDPOINT_TEMPLATES \cup {"unknown"} :
       \E workspace_id \in WorkspaceIdsOf(endpoint) :
          IF \/ UnknownTemplate(endpoint)
             \/ WorkspaceMissing(ENDPOINT_TEMPLATES[endpoint], workspace_id)
          THEN /\ disp' = [op |-> op, endpoint |-> endpoint,
                           workspace_id |-> workspace_id, status |-> 0,
                           response |-> NoEnvelope]
               /\ Return("disp_done", "RequestError", RetNothing)
               /\ UNCHANGED <<args, tokenAnswer, transportExc, tokenCalls,
                              httpCalls, api_result, initial,
                              continuation_token, data, aliased, pag, lro>>
          ELSE \E payload \in PayloadsOf(op), tok \in TokenOutcomes,
                  out \in InitialOutcomes :
                  LET template == ENDPOINT_TEMPLATES[endpoint]
                      a == TemplateArgs(op, template, payload)
                      r == api_core_request(a, tok, out, tokenCalls, httpCalls)
                      sent == r.httpCalls > httpCalls
                  IN
                  /\ disp' = [op |-> op, endpoint |-> endpoint,
                              workspace_id |-> workspace_id,
                              status |-> IF sent THEN out.status ELSE 0,
                              response |-> IF r.ret.kind = "envelope"
                                           THEN r.ret.env ELSE NoEnvelope]
                  /\ args' = a
                  /\ tokenAnswer' = IF r.tokenCalls > tokenCalls THEN tok
                                    ELSE NotConsulted
                  /\ transportExc' = IF sent THEN out.exc ELSE NoExc
                  /\ tokenCalls' = r.tokenCalls
                  /\ httpCalls' = r.httpCalls
                  /\ pag' = IF sent
                            THEN [NoPag EXCEPT !.served = ServedBy(out),
                                               !.issued = IssuedBy(out)]
                            ELSE NoPag
                  /\ DispatchResponse(op, template, r)
    /\ UNCHANGED pathCall

\* The path part of a template: with or without workspace prefix, with or
\* without a fixed suffix.
PathTemplates ==
    [requires_workspace_id : BOOLEAN,
     endpoint_prefix : {"/workspaces/"},
     endpoint : {"/items"},
     endpoint_suffix : {None, "/updateDefinition"}]

\* What an f-string makes of an argument: the text of a string, 'None' of
\* None.
Str(x) == IF x = None THEN "None" ELSE x

\* The endpoint handed to api_core_request, as the sequence of the pieces
\* concatenated. _post_generic appends the item id when it is not None and
\* the suffix when the template has one; _get_generic, _patch_generic and
\* _delete_generic always append f"/{item_id}" and never the suffix;
\* _list_generic appends nothing.
EndpointOf(op, template, workspace_id, item_id) ==
    LET base == IF template.requires_workspace_id
                THEN <<template.endpoint_prefix, Str(workspace_id),
                       template.endpoint>>
                ELSE <<template.endpoint>>
    IN CASE op = "list" -> base
         [] op \in {"get", "patch", "delete"} -> base \o <<"/", Str(item_id)>>
         [] op = "post" ->
              base
              \o (IF item_id # None THEN <<"/", Str(item_id)>> ELSE <<>>)
              \o (IF template.endpoint_suffix # None
                  THEN <<template.endpoint_suffix>> ELSE <<>>)

NoPathCall == [op |-> "none", template |-> None, workspace_id |-> None,
               item_id |-> None, raised |-> NoExc, endpoint |-> <<>>]

\* The calls whose path is built: _list_generic has no item_id parameter.
PathCalls ==
    { c \in [op : EntryPoints, template : PathTemplates,
             workspace_id : {None, "ws"}, item_id : {None, "item"},
             raised : {NoExc}, endpoint : {<<>>}] :
        c.op = "list" => c.item_id = None }

\* The entry point validates the workspace id and builds the endpoint.
BuildEndpoint ==
    /\ pathCall.op # "none"
    /\ pathCall.endpoint = <<>>
    /\ pathCall.raised = NoExc
    /\ pathCall' =
          IF WorkspaceMissing(pathCall.template, pathCall.workspace_id)
          THEN [pathCall EXCEPT !.raised = "RequestError"]
          ELSE [pathCall EXCEPT
                  !.endpoint = EndpointOf(pathCall.op, pathCall.template,
                                          pathCall.workspace_id,
                                          pathCall.item_id)]
    /\ UNCHANGED <<pc, disp, args, tokenAnswer, transportExc, raised, ret,
                   handled, tokenCalls, httpCalls, api_result, initial,
                   continuation_token, data, aliased, pag, lro>>

\* No entry point has been called: the state of the single thread.
InitCore ==
    /\ pc = "idle"
    /\ disp = NoDisp
    /\ args = NoArgs
    /\ tokenAnswer = NotConsulted
    /\ transportExc = NoExc
    /\ raised = NoExc
    /\ ret = RetNothing
    /\ handled = NoHandled
    /\ tokenCalls = 0
    /\ httpCalls = 0
    /\ api_result = NoEnvelope
    /\ initial = NoEnvelope
    /\ continuation_token = Absent
    /\ data = <<>>
    /\ aliased = FALSE
    /\ pag = NoPag
    /\ lro = NoLro

Init == InitCore /\ pathCall = NoPathCall

Next ==
    \/ Dispatch
    \/ ApiCoreRequest
    \/ PaginationCall
    \/ PaginationFetch
    \/ LroCall
    \/ LroCallDirect
    \/ LroFirstPoll
    \/ LroResult
    \/ LroLoopPoll

Spec == Init /\ [][Next]_vars

\* lro_handler alone, called on an envelope its caller built, with every
\* request it issues answered (by a response or by an exception) and every
\* sleep ending.
LroNext ==
    \/ LroCallDirect
    \/ LroFirstPoll
    \/ LroResult
    \/ LroLoopPoll

LroSpec == Init /\ [][LroNext]_vars /\ WF_vars(LroNext)

\* The path building of the entry points alone, for every call.
PathInit == InitCore /\ pathCall \in PathCalls

PathNext == BuildEndpoint

PathSpec == PathInit /\ [][PathNext]_vars

---------------------------------------------------------------------------
(* Properties.                                                             *)

\* An envelope's data is present: it is not None.
Present(d) == d.kind # "none"

\* C1: api_core_request called with both payload and data raises
\* InvalidParameterError, whatever the other arguments are, and by then the
\* token provider has not been called and no HTTP request has been issued.
C1_ConflictRaisesBeforeNetwork ==
    (pc = "returned" /\ args.payload # "none" /\ args.data # "none")
    => /\ raised = "InvalidParameterError"
       /\ ret = RetNothing
       /\ tokenCalls = 0
       /\ httpCalls = 0

C1_Witness ==
    /\ pc = "returned"
    /\ args.payload = "dict" /\ args.data = "given"
    /\ args.params = "dict" /\ args.return_raw
    /\ raised = "InvalidParameterError"

\* C2: a transport exception on the initial request never reaches the
\* caller; the envelope returned is a failure without data, with a non-empty
\* error, and with status 408 for a timeout, 503 for a connection failure
\* and 500 for any other transport error.
C2_TransportErrorsClassified ==
    (pc = "returned" /\ transportExc # NoExc)
    => /\ raised = NoExc
       /\ ret.kind = "envelope"
       /\ ~ret.env.success
       /\ ~Present(ret.env.data)
       /\ ret.env.error \notin {None, ""}
       /\ ret.env.status_code =
             (IF IsTimeout(transportExc) THEN 408
              ELSE IF IsConnectionError(transportExc) THEN 503
              ELSE 500)

C2_Witness ==
    /\ pc = "returned"
    /\ transportExc = "ConnectionError"
    /\ ret.kind = "envelope"
    /\ ret.env.status_code = 503

\* C3 as stated: every envelope a core operation returns has no error when
\* it is a success, and has data only when it is a success.
C3_EnvelopeInvariant ==
    ret.kind = "envelope"
    => /\ ret.env.success => ret.env.error = None
       /\ Present(ret.env.data) => ret.env.success

\* C3 as amended: a success has no error; data is present only on a success,
\* except in the failure lro_handler returns when a retry-loop poll that was
\* answered with an ok status reports Failed or Undefined, which carries the
\* body of the status resource as data.
C3_EnvelopeInvariantAmended ==
    ret.kind = "envelope"
    => /\ ret.env.success => ret.env.error = None
       /\ (Present(ret.env.data) /\ ~ret.env.success)
          => /\ pc = "lro_done"
             /\ lro.attempt >= 1
             /\ lro.status \in {"Failed", "Undefined"}
             /\ ResponseOk(lro.code)
             /\ ret.env.data.src = "status"

C3_Witness ==
    /\ pc = "lro_done"
    /\ ret.kind = "envelope"
    /\ ~ret.env.success
    /\ Present(ret.env.data)
    /\ lro.status = "Failed"

C5_ChainFetchedInOrder ==
    (/\ pc = "pag_done"
     /\ raised = NoExc
     /\ HasContinuationField(initial.data)
     /\ pag.clean)
    => /\ pag.requests = pag.issued
       /\ pag.sent = SubSeq(TokenNames, 1, pag.issued)
       /\ ret.kind = "envelope"
       /\ ret.env.success
       /\ ret.env.data.value = Items(0, pag.served)

C5_Witness ==
    /\ pc = "pag_done"
    /\ pag.clean
    /\ pag.sent = <<"A", "B", "C">>
    /\ pag.requests = 3
    /\ ret.kind = "envelope"
    /\ Len(ret.env.data.value) >= 4

\* C6 as stated: when the continuation request for page k meets a transport
\* error or a response that is not 2xx, no further request is issued and a
\* success is returned whose collection is the items of pages 1..k-1.
C6_FailureTruncates ==
    (pc = "pag_done" /\ pag.failedAt > 0)
    => /\ raised = NoExc
       /\ pag.requests = pag.failedAt - 1
       /\ ret.kind = "envelope"
       /\ ret.env.success
       /\ ret.env.data.value = Items(0, pag.servedAtFail)

\* C7: when the k-th poll is the first to report Succeeded, exactly k polls
\* and one GET of {Location}/result are issued, and an ok JSON answer of the
\* result resource is returned as a success carrying that payload; for
\* Running, Running, Succeeded that is 3 polls.
C7_SucceededAtKthPoll ==
    (pc = "lro_done" /\ lro.succeededAt > 0)
    => /\ lro.polls = lro.succeededAt
       /\ lro.fetches = 1
       /\ raised = NoExc
       /\ ret.kind = "envelope"
       /\ (lro.result.exc = NoExc /\ ResponseOk(lro.result.status)
           /\ lro.result.body.content = "json")
          => /\ ret.env.success
             /\ ret.env.status_code = lro.result.status
             /\ ret.env.data = lro.result.body.json

C7_Witness ==
    /\ pc = "lro_done"
    /\ lro.streak = 2
    /\ lro.succeededAt = 3
    /\ lro.polls = 3
    /\ lro.fetches = 1
    /\ ret.kind = "envelope"
    /\ ret.env.success
    /\ ret.env.data.src = "result"
    /\ Present(ret.env.data)

\* The errors of the envelopes lro_handler can return when the very first
\* poll reports Failed.
FirstPollFailedErrors ==
    { LroResultEnvelope(out, 0).error : out \in ResultOutcomes }

\* The result is the retry-exhaustion failure, told apart from what a Failed
\* on the first poll gives.
IsExhaustion ==
    /\ ret.kind = "envelope"
    /\ ~ret.env.success
    /\ ret.env.error = "Max retries exceeded."
    /\ ret.env.error \notin FirstPollFailedErrors

\* C8 as stated: 10 consecutive polls answered Running exhaust the retry
\* budget: the handler returns the max-retries failure (every poll issued
\* was answered with a status).
C8_TenRunningExhausts ==
    (pc = "lro_done" /\ lro.streak >= MAX_RETRIES /\ lro.status # Absent)
    => IsExhaustion

\* C8 as amended: the budget is the first poll and 10 retry-loop polls; when
\* all 11 are answered Running the handler returns the max-retries failure,
\* whose error differs from that of every envelope a Failed on the first
\* poll gives.
C8_ElevenRunningExhausts ==
    (pc = "lro_done" /\ lro.streak = MAX_RETRIES + 1) => IsExhaustion

C8_Witness ==
    /\ pc = "lro_done"
    /\ lro.streak = MAX_RETRIES + 1
    /\ lro.polls = MAX_RETRIES + 1
    /\ lro.fetches = 0
    /\ IsExhaustion

\* C9 as stated: when the first poll reports Failed or Undefined, a failure
\* is returned whatever the result resource answers, and the data it
\* carries, if any, is the body of the status resource.
C9_FirstPollFailedIsFailure ==
    (pc = "lro_done" /\ lro.first \in {"Failed", "Undefined"})
    => /\ ret.kind = "envelope"
       /\ ~ret.env.success
       /\ Present(ret.env.data) => ret.env.data.src = "status"

\* C10 as stated: handed the 202 success of api_core_request for a response
\* that carried a Location header, lro_handler polls the Location URL; it
\* neither returns unpolled nor raises.
C10_LocationTriggersPoll ==
    (/\ lro.via = "api_core_request"
     /\ initial.success
     /\ initial.status_code = 202
     /\ initial.headers.keys # {})
    => /\ raised = NoExc
       /\ pc = "lro_done" => lro.polls >= 1

\* The dispatcher call in progress names a template that is not raw.
DispNonRaw ==
    /\ ~UnknownTemplate(disp.endpoint)
    /\ ~ENDPOINT_TEMPLATES[disp.endpoint].return_raw

\* C11 as stated: on a non-raw template, get, list and delete return None
\* without raising for every completed response whose status is not 2xx,
\* and so do post and patch when the handler called on a 202 response gave
\* back a failure envelope.
C11_RemoteFailureReturnsNone ==
    /\ (/\ pc = "disp_done"
        /\ disp.op \in {"get", "list", "delete"}
        /\ DispNonRaw
        /\ disp.status # 0
        /\ ~(200 =< disp.status /\ disp.status =< 299))
       => (raised = NoExc /\ ret = RetNone)
    /\ (/\ pc = "disp_done"
        /\ disp.op \in {"post", "patch"}
        /\ DispNonRaw
        /\ disp.status = 202
        /\ handled.ret.kind = "envelope"
        /\ ~handled.ret.env.success)
       => (raised = NoExc /\ ret = RetNone)

\* C12: an entry point called with a name that is not in the registry, or
\* with no workspace id for a template that requires one, raises
\* RequestError, and by then the token provider has not been called and no
\* HTTP request has been issued.
C12_ValidationRaisesBeforeNetwork ==
    (/\ pc = "disp_done"
     /\ \/ disp.endpoint \notin DOMAIN ENDPOINT_TEMPLATES
        \/ /\ ENDPOINT_TEMPLATES[disp.endpoint].requires_workspace_id
           /\ disp.workspace_id = None)
    => /\ raised = "RequestError"
       /\ ret = RetNothing
       /\ tokenAnswer = NotConsulted
       /\ tokenCalls = 0
       /\ httpCalls = 0

C12_Witness ==
    /\ pc = "disp_done"
    /\ disp.op = "patch"
    /\ disp.endpoint = "workspace/parsed/single"
    /\ disp.workspace_id = None
    /\ raised = "RequestError"
    /\ httpCalls = 0

\* C13: when the token provider answers with no token, api_core_request
\* raises AuthenticationError without having issued an HTTP request; and
\* whenever a call has issued an HTTP request, the token provider was asked
\* in that call and gave a token.
C13_NoTokenNoRequest ==
    /\ (pc \in {"returned", "disp_done"} /\ tokenAnswer = "none")
       => /\ raised = "AuthenticationError"
          /\ ret = RetNothing
          /\ httpCalls = 0
    /\ (pc \in {"returned", "disp_done"} /\ httpCalls > 0)
       => (tokenCalls = 1 /\ tokenAnswer = "token")

C13_Witness ==
    /\ pc = "returned"
    /\ tokenAnswer = "none"
    /\ args.return_raw
    /\ args.payload = "nondict"
    /\ raised = "AuthenticationError"
    /\ tokenCalls = 1
    /\ httpCalls = 0

\* C14 as stated: the envelope api_core_request builds from a completed
\* response has success = TRUE exactly when the status code is in 200..299.
C14_SuccessIffTwoXX ==
    (pc = "returned" /\ ret.kind = "envelope" /\ transportExc = NoExc)
    => (ret.env.success
        <=> (200 =< ret.env.status_code /\ ret.env.status_code =< 299))

\* The call of api_core_request that returned passed the parameter checks
\* and got a token.
ValidationAndTokenPassed ==
    /\ pc = "returned"
    /\ args.params # "nondict"
    /\ args.payload # "nondict"
    /\ ~(args.payload # "none" /\ args.data # "none")
    /\ tokenAnswer = "token"

\* C15 as stated: once validation and token retrieval have passed,
\* api_core_request returns an envelope in every mode, raw or not.
C15_AlwaysEnvelope ==
    ValidationAndTokenPassed => (raised = NoExc /\ ret.kind = "envelope")

\* C15 amended: once validation and token retrieval have passed,
\* api_core_request does not raise; it returns the transport response
\* object itself for a completed response in return_raw mode, and an
\* envelope otherwise (non-raw mode, or a transport failure in either mode).
C15_EnvelopeUnlessRaw ==
    ValidationAndTokenPassed
    => /\ raised = NoExc
       /\ IF args.return_raw /\ transportExc = NoExc
          THEN ret = RetRaw
          ELSE ret.kind = "envelope"

C15_Witness ==
    /\ ValidationAndTokenPassed
    /\ args.return_raw
    /\ httpCalls = 1
    /\ transportExc = NoExc
    /\ ret = RetRaw

Diagnostics(env) == [error |-> env.error, data |-> env.data]

\* Why polling ended, when it ended on what the status resource reported:
\* a Failed or Undefined status, or, after the last attempt of the loop, a
\* status that is none of Succeeded, Failed and Undefined.
LroCause ==
    CASE lro.exc # NoExc -> "none"
      [] lro.status \in {"Failed", "Undefined"} -> lro.status
      [] /\ pc = "lro_done"
         /\ lro.attempt = MAX_RETRIES
         /\ lro.polls = MAX_RETRIES + 1
         /\ lro.status # "Succeeded" -> "exhausted"
      [] OTHER -> "none"

\* The diagnostics of the failure envelopes lro_handler gives for a cause:
\* on the first poll and in the retry loop.
FailureDiagnostics(cause) ==
    IF cause = "exhausted"
    THEN { Diagnostics(MaxRetriesEnvelope(c)) : c \in StatusCodes }
    ELSE { Diagnostics(e) :
             e \in { r \in { LroResultEnvelope(out, 0) : out \in ResultOutcomes } :
                       ~r.success } }
         \cup { Diagnostics(LroFailedEnvelope(
                    Response(c, Body("json", Dict(FALSE, <<>>, Absent, cause,
                                                  "status")), Absent),
                    cause)) : c \in StatusCodes }

\* C17 as stated: a failure envelope returned because the status resource
\* reported Failed, one returned because it reported Undefined, and one
\* returned because the retries ran out never carry the same diagnostics
\* (error and data), on the first poll as in the retry loop.
C17_FailureShadesDistinct ==
    (/\ pc = "lro_done"
     /\ ret.kind = "envelope"
     /\ ~ret.env.success
     /\ LroCause # "none")
    => \A other \in {"Failed", "Undefined", "exhausted"} \ {LroCause} :
          Diagnostics(ret.env) \notin FailureDiagnostics(other)

\* The retry loop never exceeds its budget, and when it ends without a
\* Succeeded, Failed or Undefined status and without an exception, it
\* ends after the last attempt with the max-retries failure.
LroWithinBudget ==
    /\ lro.polls =< 1 + 10
    /\ lro.sleeps =< 10
    /\ lro.fetches =< 1
    /\ (/\ pc = "lro_done"
        /\ lro.attempt >= 1
        /\ lro.exc = NoExc
        /\ lro.status \notin {"Succeeded", "Failed", "Undefined"})
       => /\ lro.polls = 1 + 10
          /\ lro.fetches = 0
          /\ raised = NoExc
          /\ ret.kind = "envelope"
          /\ ~ret.env.success
          /\ ret.env.error = "Max retries exceeded."

\* C18: with every request answered, lro_handler terminates; it polls the
\* status resource at most 10 times after the first poll, fetches
\* {Location}/result at most once, and a retry loop that saw no terminal
\* status ends with the max-retries failure.
C18_TerminatesWithinBudget == []LroWithinBudget /\ <>(pc = "lro_done")

C18_Witness ==
    /\ pc = "lro_done"
    /\ lro.first = "NotStarted"
    /\ lro.status = "NotStarted"
    /\ lro.polls = 11
    /\ lro.sleeps = 10
    /\ lro.fetches = 0
    /\ ret.env.error = "Max retries exceeded."

\* A retry-loop poll was answered with a Failed or Undefined status, and
\* the handler has returned.
InLoopFailure ==
    /\ pc = "lro_done"
    /\ lro.attempt >= 1
    /\ lro.exc = NoExc
    /\ lro.status \in {"Failed", "Undefined"}

\* The poll of attempt lro.attempt was the last thing the handler did: no
\* poll after it, no result fetch, no sleep after it; and it returned a
\* failure.
FailedAtOnce ==
    /\ raised = NoExc
    /\ ret.kind = "envelope"
    /\ ~ret.env.success
    /\ lro.polls = lro.attempt + 1
    /\ lro.fetches = 0
    /\ lro.sleeps = lro.attempt - 1

\* The error names attempt n (the one error text of lro_handler that names
\* an attempt).
AttemptTagged(error, n) ==
    error = "LRO polling failed at attempt " \o AttemptText[n] \o ": e"

\* C19 as stated: a retry-loop poll reporting Failed or Undefined at attempt
\* n ends the handler at once with a failure tagged with n.
C19_FailedAtOnceTagged ==
    InLoopFailure
    => (FailedAtOnce /\ AttemptTagged(ret.env.error, lro.attempt))

\* C19 amended: a retry-loop poll reporting Failed or Undefined ends the
\* handler at once with a failure that carries the poll's HTTP status and
\* names the reported status (in the error, with the status body as data,
\* when the HTTP status is ok; as the response text otherwise), and that
\* is not tagged with the attempt.
C19_FailedAtOnceNamesStatus ==
    InLoopFailure
    => /\ FailedAtOnce
       /\ ret.env.status_code = lro.code
       /\ IF lro.code < 400
          THEN /\ ret.env.error = "LRO failed with status: " \o lro.status
               /\ ret.env.data.src = "status"
               /\ ret.env.data.status = lro.status
          ELSE /\ ret.env.error = "{status: " \o lro.status \o "}"
               /\ ~Present(ret.env.data)
       /\ ~AttemptTagged(ret.env.error, lro.attempt)

C19_Witness ==
    /\ InLoopFailure
    /\ lro.attempt = 4
    /\ lro.status = "Undefined"
    /\ lro.code = 200
    /\ lro.sleeps = 3
    /\ ret.env.error = "LRO failed with status: Undefined"

\* C20: a transport exception on the retry-loop poll of attempt n does not
\* reach the caller; the handler returns at once a failure (status 500)
\* whose error names attempt n, without a further poll, a result fetch or
\* a sleep.
C20_PollExceptionTagged ==
    (/\ pc = "lro_done"
     /\ lro.attempt >= 1
     /\ lro.exc \in TransportExceptions)
    => /\ FailedAtOnce
       /\ ret.env.status_code = 500
       /\ ~Present(ret.env.data)
       /\ AttemptTagged(ret.env.error, lro.attempt)

C20_Witness ==
    /\ pc = "lro_done"
    /\ lro.attempt = 3
    /\ lro.exc = "ReadTimeout"
    /\ lro.polls = 4
    /\ ret.env.error = "LRO polling failed at attempt 3: e"

\* The entry point got a success envelope on a non-raw template, and neither
\* pagination_handler nor lro_handler is due.
DispPassthrough ==
    /\ pc = "disp_done"
    /\ DispNonRaw
    /\ disp.response.success
    /\ ~(disp.op = "list"
         /\ ENDPOINT_TEMPLATES[disp.endpoint].support_pagination)
    /\ ~(disp.op \in {"post", "patch"} /\ disp.response.status_code = 202)

\* C21 as stated, for list, get, post and patch: with a success envelope on
\* a non-raw template and no pagination or LRO routing due, the entry point
\* returns the envelope's decoded data.
C21_PassthroughReturnsData ==
    (DispPassthrough /\ disp.op # "delete")
    => (raised = NoExc /\ ret = RetData(disp.response.data))

\* _list_generic got a success envelope on a non-raw paginated template and
\* is done.
PaginatedListDone ==
    /\ pc = "disp_done"
    /\ disp.op = "list"
    /\ DispNonRaw
    /\ ENDPOINT_TEMPLATES[disp.endpoint].support_pagination
    /\ disp.response.success

\* The items of all pages in page order: those of the first page, then what
\* the loop appended.
AllPagesItems ==
    IF HasContinuationField(disp.response.data) THEN data
    ELSE ValueOf(disp.response.data)

\* C22 as stated: a successful list call on a paginated template returns a
\* list, the value items of all pages in page order; never an envelope,
\* never None, and it does not raise.
C22_PaginatedListReturnsList ==
    PaginatedListDone
    => /\ raised = NoExc
       /\ ret.kind = "list"
       /\ ret.env.data.value = AllPagesItems

\* _post_generic or _patch_generic got a success envelope with status 202 on
\* a non-raw template and is done.
AcceptedDone ==
    /\ pc = "disp_done"
    /\ disp.op \in {"post", "patch"}
    /\ DispNonRaw
    /\ disp.response.success
    /\ disp.response.status_code = 202

\* C23 as stated: create and update hand a successful 202 response to
\* lro_handler and return the data of the envelope it resolves to, None when
\* that envelope succeeded with empty data; get, list and delete never call
\* lro_handler.
C23_AcceptedRoutedThroughLro ==
    /\ AcceptedDone
       => /\ lro.via = disp.op
          /\ raised = NoExc
          /\ handled.ret.kind = "envelope"
          /\ handled.ret.env.success
             => ret = IF Truthy(handled.ret.env.data)
                      THEN RetData(handled.ret.env.data)
                      ELSE RetNone
    /\ disp.op \in {"get", "list", "delete"} => lro.via = "none"

\* C24: pagination_handler has no iteration cap. While every page fetched
\* carried a token and no iteration raised, the handler is still in its
\* loop, however many requests it has issued; and once it has left the loop
\* after at least one request, the last iteration raised or the last page
\* carried no token.
C24_NoIterationCap ==
    /\ pc = "pag_loop"
       => /\ TokenTruthy(continuation_token)
          /\ ~pag.broke
          /\ pag.issued = pag.requests + 1
    /\ (pc # "pag_loop" /\ pag.requests > 0)
       => \/ pag.broke
          \/ ~TokenTruthy(continuation_token)
    /\ (pag.requests > 0 /\ ~pag.broke /\ TokenTruthy(continuation_token))
       => pc = "pag_loop"

\* After MaxPageRequests requests, every page having carried a token, the
\* handler is still looping.
C24_Witness ==
    /\ pc = "pag_loop"
    /\ pag.requests = MaxPageRequests
    /\ pag.issued = MaxPageRequests + 1

\* C25: in a call that goes through api_core_request the token provider is
\* asked exactly once, before the first request. Every request a handler
\* issues afterwards is a GET with the headers, hence the bearer token, of
\* the initial request: the n-th continuation goes to the original URL
\* without its query string, with the n-th token received as the only query
\* parameter; a status poll goes to Location and the result fetch to
\* Location/result.
C25_FollowUpsReuseInitialRequest ==
    /\ lro.via # "caller"
       => /\ tokenCalls =< 1
          /\ httpCalls >= 1 => tokenCalls = 1
          /\ httpCalls > 1 => initial.request_kwargs.auth = tokenCalls
    /\ pag.requests > 0
       => pag.request = [method |-> "GET", base |-> "url",
                         query |-> "continuationToken="
                                   \o TokenNames[pag.requests],
                         auth |-> initial.request_kwargs.auth]
    /\ lro.polls + lro.fetches > 0
       => /\ lro.request.method = "GET"
          /\ lro.request.auth = initial.request_kwargs.auth
          /\ lro.request.query = ""
          /\ lro.request.base = IF lro.fetches > 0 THEN "Location/result"
                                ELSE "Location"

\* The second continuation request of a call whose initial URL carried a
\* query string.
C25_Witness ==
    /\ pag.requests = 2
    /\ initial.request_kwargs.query
    /\ tokenCalls = 1
    /\ httpCalls = 3

\* C26 as stated: the envelope handed to pagination_handler or lro_handler
\* is never changed; its data, value list and continuation token are at
\* every moment what they were when the handler was called.
C26_EnvelopeUnchanged == api_result = initial

\* C27 as stated: lro_handler sleeps once after every poll that reports
\* Running or NotStarted, so that when it is about to poll again, the first
\* retry-loop poll included, it has slept once for each poll made; and a
\* poll with a terminal status is followed by no sleep.
C27_OneSleepBetweenPolls ==
    /\ pc = "lro_loop" => lro.sleeps = lro.polls
    /\ (pc \in {"lro_result", "lro_done"} /\ lro.polls > 0)
       => lro.sleeps = lro.polls - 1

\* The path contains an item-id segment.
HasItemSegment(endpoint) == \E i \in 1..Len(endpoint) : endpoint[i] = "/"

\* C28 as stated: whichever entry point built the path, it ends with the
\* template's suffix whenever the template defines one, and it contains an
\* item-id segment only when an item id was supplied.
C28_PathInterpolation ==
    pathCall.endpoint # <<>>
    => /\ pathCall.template.endpoint_suffix # None
          => pathCall.endpoint[Len(pathCall.endpoint)]
             = pathCall.template.endpoint_suffix
       /\ HasItemSegment(pathCall.endpoint) => pathCall.item_id # None

\* C29 as stated: once lro_handler has found the Location header and made
\* its first poll, whatever that poll and the later ones answered, it ends
\* by returning an envelope: it neither raises nor returns None.
C29_LroAlwaysReturnsEnvelope ==
    (pc = "lro_done" /\ lro.polls >= 1)
    => (raised = NoExc /\ ret.kind = "envelope")

\* C30 as stated: an entry point whose template name and workspace id were
\* accepted, which got a token and was given no ill-typed payload, ends
\* without raising, whatever the service answered.
C30_EntryPointsNeverRaise ==
    (/\ pc = "disp_done"
     /\ ~UnknownTemplate(disp.endpoint)
     /\ ~WorkspaceMissing(ENDPOINT_TEMPLATES[disp.endpoint], disp.workspace_id)
     /\ tokenAnswer = "token"
     /\ args.payload # "nondict")
    => raised = NoExc

====
